---------------------------- MODULE Spec2Model ----------------------------
(***************************************************************************)
(* A model of backend/circuit_engine.py: build_circuit, process_state and  *)
(* run_simulation, with the request (CircuitData) as the input.            *)
(*                                                                         *)
(* Numbers.  Every amplitude the modelled gates can produce lies in        *)
(* Z[sqrt 2, i] / 2^e.  An amplitude is <<a, b, c, d>>, standing for       *)
(* (a + b*sqrt2) + i*(c + d*sqrt2); a state vector carries one exponent e  *)
(* for all its amplitudes and is kept in lowest terms, so equal vectors    *)
(* are equal values.  Rotation angles are counted in quarter turns (pi/2). *)
(***************************************************************************)
EXTENDS Integers, Sequences, FiniteSets, TLC

\* ------------------------------------------------------------------ bounds
\* data.qubits ranges over 1..MaxQubits
MaxQubits == 2
\* len(data.gates) ranges over 0..MaxGates
MaxGates == 2
\* GateOp.moment ranges over 0..MaxMoment
MaxMoment == 1

\* --------------------------------------------------------------- arithmetic
RECURSIVE Pow2(_)
Pow2(k) == IF k = 0 THEN 1 ELSE 2 * Pow2(k - 1)

AZero == <<0, 0, 0, 0>>
AOne == <<1, 0, 0, 0>>

AAdd(x, y) == <<x[1] + y[1], x[2] + y[2], x[3] + y[3], x[4] + y[4]>>

\* (a + b r + i(c + d r)) * (a' + b' r + i(c' + d' r)),  r*r = 2
AMul(x, y) ==
    << x[1]*y[1] + 2*x[2]*y[2] - x[3]*y[3] - 2*x[4]*y[4],
       x[1]*y[2] + x[2]*y[1] - x[3]*y[4] - x[4]*y[3],
       x[1]*y[3] + 2*x[2]*y[4] + x[3]*y[1] + 2*x[4]*y[2],
       x[1]*y[4] + x[2]*y[3] + x[3]*y[2] + x[4]*y[1] >>

AConj(x) == <<x[1], x[2], 0 - x[3], 0 - x[4]>>

ADivisible(x, d) == \A c \in 1..4 : x[c] % d = 0

AQuotient(x, d) == <<x[1] \div d, x[2] \div d, x[3] \div d, x[4] \div d>>

\* a state vector: amp[0 .. 2^n - 1] over the common denominator 2^e;
\* Reduce brings it to lowest terms
Reduce(st) ==
    LET amp == st.amp
        divides(k) == \A i \in DOMAIN amp : ADivisible(amp[i], Pow2(k))
        h == CHOOSE k \in 0..st.e :
                divides(k) /\ (k = st.e \/ ~divides(k + 1))
    IN [amp |-> [i \in DOMAIN amp |-> AQuotient(amp[i], Pow2(h))], e |-> st.e - h]

\* a real number (p + q*sqrt2) / 2^e in lowest terms, as <<p, q, e>>
RECURSIVE Real(_, _, _)
Real(p, q, e) ==
    IF e > 0 /\ p % 2 = 0 /\ q % 2 = 0 THEN Real(p \div 2, q \div 2, e - 1)
    ELSE <<p, q, e>>


\* ------------------------------------------------------------ gate catalog
SingleKinds == {"H", "X", "Y", "Z", "RX", "RY", "RZ"}
RotationKinds == {"RX", "RY", "RZ"}

Re(z) == <<z[1], z[2], 0, 0>>
Im(z) == <<0, 0, z[1], z[2]>>
Neg(x) == <<0 - x[1], 0 - x[2], 0 - x[3], 0 - x[4]>>

\* 2*cos(j*pi/4) and 2*sin(j*pi/4) as <<p, q>> = p + q*sqrt2, j a quarter turn
\* count of the rotation angle (the half angle is j*pi/4)
Cos2(j) == CASE j % 8 = 0 -> <<2, 0>>  [] j % 8 = 1 -> <<0, 1>>
             [] j % 8 = 2 -> <<0, 0>>  [] j % 8 = 3 -> <<0, -1>>
             [] j % 8 = 4 -> <<-2, 0>> [] j % 8 = 5 -> <<0, -1>>
             [] j % 8 = 6 -> <<0, 0>>  [] OTHER -> <<0, 1>>
Sin2(j) == CASE j % 8 = 0 -> <<0, 0>>  [] j % 8 = 1 -> <<0, 1>>
             [] j % 8 = 2 -> <<2, 0>>  [] j % 8 = 3 -> <<0, 1>>
             [] j % 8 = 4 -> <<0, 0>>  [] j % 8 = 5 -> <<0, -1>>
             [] j % 8 = 6 -> <<-2, 0>> [] OTHER -> <<0, -1>>

\* twice the 2x2 unitary of a gate, rows then columns, indexed from 0:
\* Unitary2(g, j)[r][c] / 2 is the matrix entry
Mat(r0c0, r0c1, r1c0, r1c1) ==
    [r \in 0..1 |-> [c \in 0..1 |->
        IF r = 0 THEN (IF c = 0 THEN r0c0 ELSE r0c1)
        ELSE (IF c = 0 THEN r1c0 ELSE r1c1)]]

Unitary2(gate, j) ==
    CASE gate = "H" -> Mat(<<0,1,0,0>>, <<0,1,0,0>>, <<0,1,0,0>>, <<0,-1,0,0>>)
      [] gate \in {"X", "CNOT"} -> Mat(AZero, <<2,0,0,0>>, <<2,0,0,0>>, AZero)
      [] gate = "Y" -> Mat(AZero, <<0,0,-2,0>>, <<0,0,2,0>>, AZero)
      [] gate = "Z" -> Mat(<<2,0,0,0>>, AZero, AZero, <<-2,0,0,0>>)
      [] gate = "RX" -> Mat(Re(Cos2(j)), Neg(Im(Sin2(j))), Neg(Im(Sin2(j))), Re(Cos2(j)))
      [] gate = "RY" -> Mat(Re(Cos2(j)), Neg(Re(Sin2(j))), Re(Sin2(j)), Re(Cos2(j)))
      [] gate = "RZ" -> Mat(AAdd(Re(Cos2(j)), Neg(Im(Sin2(j)))), AZero,
                            AZero, AAdd(Re(Cos2(j)), Im(Sin2(j))))

\* ------------------------------------------------------- state vector engine
\* cirq.to_valid_state_vector(0, n): amplitude 1 at index 0
ZeroState(n) == [amp |-> [i \in 0..(Pow2(n) - 1) |-> IF i = 0 THEN AOne ELSE AZero],
                 e |-> 0]

\* the 0/1 value of the qubit on axis ax (0 = most significant) in basis index i
Bit(i, ax, n) == (i \div Pow2(n - 1 - ax)) % 2

\* position of a qubit object in the qubit order, from 0
Axis(q, order) == (CHOOSE k \in 1..Len(order) : order[k] = q) - 1

\* the axes that condition an operation: its controlled_by qubits and, for
\* CNOT, its first qubit
ControlAxes(op, order) ==
    {Axis(op.controls[k], order) : k \in 1..Len(op.controls)}
      \cup (IF op.gate = "CNOT" THEN {Axis(op.qubits[1], order)} ELSE {})

TargetAxis(op, order) == Axis(op.qubits[Len(op.qubits)], order)

\* a slip: the unitary applied as soon as one conditioning qubit is 1
ConditionedOnAny(i, op, order, n) ==
    ControlAxes(op, order) = {} \/ \E c \in ControlAxes(op, order) : Bit(i, c, n) = 1

Conditioned(i, op, order, n) == \A c \in ControlAxes(op, order) : Bit(i, c, n) = 1

\* one operation acting on the state vector
ApplyOp(st, op, order, n) ==
    LET t == TargetAxis(op, order)
        U == Unitary2(op.gate, op.quarter)
        low == Pow2(n - 1 - t)
        new(i) == IF Conditioned(i, op, order, n)
                  THEN LET b == (i \div low) % 2
                           i0 == i - b * low
                       IN AAdd(AMul(U[b][0], st.amp[i0]), AMul(U[b][1], st.amp[i0 + low]))
                  ELSE AAdd(st.amp[i], st.amp[i])
    IN Reduce([amp |-> [i \in DOMAIN st.amp |-> new(i)], e |-> st.e + 1])

\* --------------------------------------------------------- reduction engine
RECURSIVE SumAmp(_, _, _)
\* the sum of f[i] over i in 0..hi (f a function into amplitudes)
SumAmp(f, hi, acc) == IF hi < 0 THEN acc ELSE SumAmp(f, hi - 1, AAdd(acc, f[hi]))

\* the basis index whose kept qubit is a and whose other qubits spell k
Joined(a, k, keep_qubit_idx, n_qubits) ==
    LET low == Pow2(n_qubits - 1 - keep_qubit_idx)
    IN (k \div low) * 2 * low + a * low + (k % low)

\* partial_trace: rho[a][b] = sum_k psi[a, k] * conj(psi[b, k]) with the kept
\* qubit's axis moved to the front; the entries are over the denominator 4^e
partial_trace(st, keep_qubit_idx, n_qubits) ==
    LET hi == Pow2(n_qubits - 1) - 1
        psi == [a \in 0..1 |-> [k \in 0..hi |->
                  st.amp[Joined(a, k, keep_qubit_idx, n_qubits)]]]
        dag == [b \in 0..1 |-> [k \in 0..hi |-> AConj(psi[b][k])]]
        dot(a, b) == SumAmp([k \in 0..hi |-> AMul(psi[a][k], dag[b][k])], hi, AZero)
    IN [m |-> [a \in 0..1 |-> [b \in 0..1 |-> dot(a, b)]], e |-> 2 * st.e]

\* density_matrix_to_bloch: x = Re Tr(rho X), y = Re Tr(rho Y), z = Re Tr(rho Z)
density_matrix_to_bloch(rho) ==
    LET trX == AAdd(rho.m[0][1], rho.m[1][0])
        \* Tr(rho Y) = i * (rho01 - rho10)
        trY == AMul(<<0, 0, 1, 0>>, AAdd(rho.m[0][1], Neg(rho.m[1][0])))
        trZ == AAdd(rho.m[0][0], Neg(rho.m[1][1]))
    IN << Real(trX[1], trX[2], rho.e), Real(trY[1], trY[2], rho.e),
          Real(trZ[1], trZ[2], rho.e) >>

\* process_state: the {real, imag} pairs and the per-qubit Bloch vectors
process_state(st, n_qubits) ==
    [formatted_state |->
        [i \in DOMAIN st.amp |->
            [real |-> Real(st.amp[i][1], st.amp[i][2], st.e),
             imag |-> Real(st.amp[i][3], st.amp[i][4], st.e)]],
     bloch_vectors |->
        [i \in 1..n_qubits |->
            density_matrix_to_bloch(partial_trace(st, i - 1, n_qubits))]]

StepResult(moment, st, n_qubits) ==
    LET processed == process_state(st, n_qubits)
    IN [moment |-> moment,
        state_vector |-> processed.formatted_state,
        bloch_vectors |-> processed.bloch_vectors]

\* ------------------------------------------------------------ request model
\* an absent Optional field is the empty tuple, a present one a 1-tuple
None == <<>>
Some(v) == <<v>>

\* GateOp; controls is the list itself (None and [] are both falsy where the
\* code reads it); parameter is None or Some([numeric, quarter]): a float or a
\* string, convertible by float() to quarter * pi/2 iff numeric
GateOp(type, qubit, target, control, controls, parameter, moment) ==
    [type |-> type, qubit |-> qubit, target |-> target, control |-> control,
     controls |-> controls, parameter |-> parameter, moment |-> moment]

Param(numeric, quarter) == Some([numeric |-> numeric, quarter |-> quarter])

\* CircuitData; qubit_names is a list of distinct strings, <<>> when absent
CircuitData(qubits_, qubit_names, gates) ==
    [qubits |-> qubits_, qubit_names |-> qubit_names, gates |-> gates]

NameOf(i) == CASE i = 1 -> "a" [] i = 2 -> "b" [] i = 3 -> "c" [] i = 4 -> "d"
               [] OTHER -> "e"

Names(k) == [i \in 1..k |-> NameOf(i)]

\* --------------------------------------------------------- circuit builder
LineQubit(x) == [kind |-> "LineQubit", x |-> x, name |-> ""]
NamedQubit(name) == [kind |-> "NamedQubit", x |-> 0, name |-> name]

\* lines 70-73 / 149-152: the register both functions derive from the request
Register(d) ==
    IF d.qubit_names # <<>> /\ Len(d.qubit_names) = d.qubits
    THEN [i \in 1..d.qubits |-> NamedQubit(d.qubit_names[i])]
    ELSE [i \in 1..d.qubits |-> LineQubit(i - 1)]

\* Python list indexing qs[i]: IndexError unless -len <= i < len
InRange(qs, i) == 0 - Len(qs) <= i /\ i < Len(qs)
Item(qs, i) == IF i >= 0 THEN qs[i + 1] ELSE qs[Len(qs) + i + 1]

Operation(gate, quarter, qs, controls, src) ==
    [gate |-> gate, quarter |-> quarter, qubits |-> qs, controls |-> controls,
     src |-> src]

OpQubits(op) == {op.qubits[k] : k \in 1..Len(op.qubits)}
                  \cup {op.controls[k] : k \in 1..Len(op.controls)}

Distinct(seq) == \A i, j \in 1..Len(seq) : i # j => seq[i] # seq[j]

Built(op) == [status |-> "op", op |-> op]
Dropped == [status |-> "none", op |-> Operation("", 0, <<>>, <<>>, 0)]
Raised == [status |-> "error", op |-> Operation("", 0, <<>>, <<>>, 0)]

\* lines 87-114: the base operation of descriptor g (the src-th of the list)
BaseOp(g, qs, src) ==
    CASE g.type \in SingleKinds ->
           IF g.qubit = None THEN Dropped
           ELSE IF g.type \in RotationKinds /\ g.parameter # None
                   /\ ~g.parameter[1].numeric THEN Raised
           ELSE IF ~InRange(qs, g.qubit[1]) THEN Raised
           ELSE Built(Operation(g.type,
                    IF g.type \notin RotationKinds THEN 0
                    ELSE IF g.parameter = None THEN 1 ELSE g.parameter[1].quarter,
                    <<Item(qs, g.qubit[1])>>, <<>>, src))
      [] g.type = "CNOT" ->
           IF g.control = None \/ g.target = None THEN Dropped
           ELSE IF ~InRange(qs, g.control[1]) \/ ~InRange(qs, g.target[1]) THEN Raised
           ELSE IF Item(qs, g.control[1]) = Item(qs, g.target[1]) THEN Raised
           ELSE Built(Operation("CNOT", 0,
                    <<Item(qs, g.control[1]), Item(qs, g.target[1])>>, <<>>, src))
      [] OTHER -> Dropped

\* lines 116-120: op.controlled_by(*control_qubits)
ControlledBy(b, g, qs) ==
    IF b.status # "op" \/ g.controls = <<>> THEN b
    ELSE IF \E k \in 1..Len(g.controls) : ~InRange(qs, g.controls[k]) THEN Raised
    ELSE LET cq == [k \in 1..Len(g.controls) |-> Item(qs, g.controls[k])]
         IN IF ~Distinct(cq \o b.op.qubits) THEN Raised
            ELSE Built([b.op EXCEPT !.controls = cq])

\* lines 87-120 for one descriptor
BuildOp(g, qs, src) == ControlledBy(BaseOp(g, qs, src), g, qs)


\* a cirq Moment is the list of its operations; Moment.with_operation accepts
\* an operation only when it shares no qubit with those already there
CanAddOp(moment, op) ==
    \A k \in 1..Len(moment) : OpQubits(moment[k]) \cap OpQubits(op) = {}

\* a slip: INLINE without the test for free qubits
InsertInlineUnchecked(circ, op) ==
    IF circ # <<>> THEN [circ EXCEPT ![Len(circ)] = Append(@, op)]
    ELSE Append(circ, <<op>>)

\* InsertStrategy.INLINE at the end of the circuit: into the last moment when
\* the qubits are free, else into a new moment
InsertInline(circ, op) ==
    IF circ # <<>> /\ CanAddOp(circ[Len(circ)], op)
    THEN [circ EXCEPT ![Len(circ)] = Append(@, op)]
    ELSE Append(circ, <<op>>)

RECURSIVE InsertAllInline(_, _)
InsertAllInline(circ, ops) ==
    IF ops = <<>> THEN circ
    ELSE InsertAllInline(InsertInline(circ, Head(ops)), Tail(ops))

\* a slip: strategy=INLINE, no new moment for a layer's first operation
AppendAllInline(circ, ops) == InsertAllInline(circ, ops)

\* line 127: circuit.append(ops, strategy=NEW_THEN_INLINE), ops non-empty:
\* a new moment for the first operation, INLINE for the rest
AppendNewThenInline(circ, ops) ==
    InsertAllInline(Append(circ, <<Head(ops)>>), Tail(ops))

\* lines 125-129: the layers 0..max_moment in order, the empty ones skipped
RECURSIVE AppendLayers(_, _, _, _)
AppendLayers(circ, layers, i, last) ==
    IF i > last THEN circ
    ELSE AppendLayers(IF layers[i] # <<>> THEN AppendNewThenInline(circ, layers[i])
                      ELSE circ,
                      layers, i + 1, last)

\* lines 78-80
RECURSIVE MaxOf(_)
MaxOf(S) == LET x == CHOOSE y \in S : TRUE
            IN IF S = {x} THEN x
               ELSE LET m == MaxOf(S \ {x}) IN IF x > m THEN x ELSE m

MaxMomentOf(gates) ==
    IF gates = <<>> THEN 0 ELSE MaxOf({gates[k].moment : k \in 1..Len(gates)})

\* a slip: steps[0] for steps[-1]
FirstStep(history) == history[1]

\* lines 171-178
FinalStep(history) == history[Len(history)]

SimulationResult(history) ==
    [state_vector |-> FinalStep(history).state_vector,
     bloch_vectors |-> FinalStep(history).bloch_vectors,
     steps |-> history]

\* ------------------------------------------------------------------- state
VARIABLES
    data,            \* the CircuitData of the request
    pc,              \* "start", "gates", "built", "sim", "done" or "error"
    qubits,          \* the register (build_circuit's, then run_simulation's)
    max_moment,      \* build_circuit's max_moment
    moment_ops,      \* build_circuit's moment_index -> list(ops)
    gi,              \* position of the loop of line 86 in data.gates, from 1
    circuit,         \* the cirq.Circuit: its moments in order
    state,           \* the simulator's state vector
    mi,              \* the simulator's next moment of circuit, from 1
    oi,              \* the next operation of that moment, from 1
    current_moment,  \* run_simulation's counter
    steps,           \* run_simulation's steps list
    result,          \* <<>> until run_simulation returns <<SimulationResult>>
    applied          \* history: <<src, step>> per operation the simulator applied

vars == <<data, pc, qubits, max_moment, moment_ops, gi, circuit, state, mi, oi,
          current_moment, steps, result, applied>>

\* the state in which run_simulation(d) is entered
Entered(d) ==
    /\ data = d
    /\ pc = "start"
    /\ qubits = <<>>
    /\ max_moment = 0
    /\ moment_ops = <<>>
    /\ gi = 1
    /\ circuit = <<>>
    /\ state = ZeroState(0)
    /\ mi = 1
    /\ oi = 1
    /\ current_moment = 0
    /\ steps = <<>>
    /\ result = <<>>
    /\ applied = <<>>

\* build_circuit, lines 70-84
BuildStart ==
    /\ pc = "start"
    /\ pc' = "gates"
    /\ qubits' = Register(data)
    /\ max_moment' = MaxMomentOf(data.gates)
    /\ moment_ops' = [i \in 0..MaxMomentOf(data.gates) |-> <<>>]
    /\ gi' = 1
    /\ circuit' = <<>>
    /\ UNCHANGED <<data, state, mi, oi, current_moment, steps, result, applied>>

\* build_circuit, one iteration of the loop of lines 86-123; an exception of
\* cirq or of Python ends the request
BuildGate ==
    /\ pc = "gates"
    /\ gi <= Len(data.gates)
    /\ LET g == data.gates[gi]
           b == BuildOp(g, qubits, gi)
       IN /\ pc' = IF b.status = "error" THEN "error" ELSE "gates"
          /\ moment_ops' = IF b.status = "op"
                           THEN [moment_ops EXCEPT ![g.moment] = Append(@, b.op)]
                           ELSE moment_ops
    /\ gi' = gi + 1
    /\ UNCHANGED <<data, qubits, max_moment, circuit, state, mi, oi,
                   current_moment, steps, result, applied>>

\* build_circuit, lines 125-131
BuildLayers ==
    /\ pc = "gates"
    /\ gi > Len(data.gates)
    /\ pc' = "built"
    /\ circuit' = AppendLayers(<<>>, moment_ops, 0, max_moment)
    /\ UNCHANGED <<data, qubits, max_moment, moment_ops, gi, state, mi, oi,
                   current_moment, steps, result, applied>>

\* run_simulation, lines 148-163: the register again, the zero state, step -1
SimStart ==
    /\ pc = "built"
    /\ pc' = "sim"
    /\ qubits' = Register(data)
    /\ state' = ZeroState(data.qubits)
    /\ steps' = <<StepResult(-1, ZeroState(data.qubits), data.qubits)>>
    /\ current_moment' = 0
    /\ mi' = 1
    /\ oi' = 1
    /\ UNCHANGED <<data, max_moment, moment_ops, gi, circuit, result, applied>>

\* simulate_moment_steps: the next operation of the current moment acts
SimOp ==
    /\ pc = "sim"
    /\ mi <= Len(circuit)
    /\ oi <= Len(circuit[mi])
    /\ state' = ApplyOp(state, circuit[mi][oi], qubits, data.qubits)
    /\ applied' = Append(applied, <<circuit[mi][oi].src, current_moment>>)
    /\ oi' = oi + 1
    /\ UNCHANGED <<data, pc, qubits, max_moment, moment_ops, gi, circuit, mi,
                   current_moment, steps, result>>

\* the simulator yields after a moment; lines 166-169 record it
SimStep ==
    /\ pc = "sim"
    /\ mi <= Len(circuit)
    /\ oi > Len(circuit[mi])
    /\ steps' = Append(steps, StepResult(current_moment, state, data.qubits))
    /\ current_moment' = current_moment + 1
    /\ mi' = mi + 1
    /\ oi' = 1
    /\ UNCHANGED <<data, pc, qubits, max_moment, moment_ops, gi, circuit, state,
                   result, applied>>

\* a circuit without moments: the simulator yields its initial state once
SimStepEmpty ==
    /\ pc = "sim"
    /\ circuit = <<>>
    /\ current_moment = 0
    /\ steps' = Append(steps, StepResult(current_moment, state, data.qubits))
    /\ current_moment' = current_moment + 1
    /\ UNCHANGED <<data, pc, qubits, max_moment, moment_ops, gi, circuit, state,
                   mi, oi, result, applied>>

\* run_simulation, lines 171-178
Return ==
    /\ pc = "sim"
    /\ IF circuit = <<>> THEN current_moment = 1 ELSE mi > Len(circuit)
    /\ pc' = "done"
    /\ result' = <<SimulationResult(steps)>>
    /\ UNCHANGED <<data, qubits, max_moment, moment_ops, gi, circuit, state, mi,
                   oi, current_moment, steps, applied>>

Next ==
    \/ BuildStart
    \/ BuildGate
    \/ BuildLayers
    \/ SimStart
    \/ SimOp
    \/ SimStep
    \/ SimStepEmpty
    \/ Return


\* ---------------------------------------------------------------- requests
Moments == 0..MaxMoment

\* the lists of at most k elements of S
ListsUpTo(S, k) == UNION {[1..len -> S] : len \in 0..k}

Single(type, q, m) == GateOp(type, q, None, None, <<>>, None, m)
Cnot(c, t, m) == GateOp("CNOT", None, t, c, <<>>, None, m)

\* the descriptors of the general requests over n qubits: every gate kind on
\* every qubit; an absent, a negative and a too large index; CNOT with and
\* without its fields; a kind the builder does not know; rotation parameters
\* (a float, a numeric and a non-numeric string); generic controls
Descriptors(n) ==
    {Single(k, Some(q), m) : k \in SingleKinds, q \in 0..(n - 1), m \in Moments}
    \cup {Single("H", q, m) : q \in {None, Some(-1), Some(n)}, m \in Moments}
    \cup {Cnot(c, t, m) : c \in {None} \cup {Some(i) : i \in 0..(n - 1)},
                          t \in {None} \cup {Some(i) : i \in 0..(n - 1)},
                          m \in Moments}
    \cup {Cnot(Some(n), Some(0), m) : m \in Moments}
    \cup {GateOp("SWAP", Some(0), Some(0), Some(0), <<>>, None, m) : m \in Moments}
    \cup {GateOp(k, Some(0), None, None, <<>>, p, m) :
            k \in RotationKinds, p \in {Param(TRUE, 2), Param(FALSE, 0)}, m \in Moments}
    \cup {GateOp("X", Some(0), None, None, <<c>>, None, m) :
            c \in (-1)..n, m \in Moments}

\* qubit_names absent, of the declared length, or one too long
NameLists(n) == {<<>>, Names(n), Names(n + 1)}

Init ==
    \E n \in 1..MaxQubits : \E names \in NameLists(n) :
        \E gates \in ListsUpTo(Descriptors(n), MaxGates) :
            Entered(CircuitData(n, names, gates))

Spec == Init /\ [][Next]_vars


\* the requests of the layout study: X on every qubit, H on qubit 0, CNOT on
\* neighbouring qubits, an X under one generic control, and a descriptor the
\* builder leaves out (H without a qubit); a named register when the qubit
\* count is even, a line register when it is odd
LayoutDescriptors(n) ==
    {Single("X", Some(q), m) : q \in 0..(n - 1), m \in Moments}
    \cup {Single("H", q, m) : q \in {None, Some(0)}, m \in Moments}
    \cup {Cnot(Some(c), Some(c + 1), m) : c \in 0..(n - 2), m \in Moments}
    \cup {GateOp("X", Some(0), None, None, <<n - 1>>, None, m) :
            m \in IF n > 1 THEN Moments ELSE {}}

InitLayout ==
    \E n \in 1..MaxQubits :
        \E gates \in ListsUpTo(LayoutDescriptors(n), MaxGates) :
            Entered(CircuitData(n, IF n % 2 = 0 THEN Names(n) ELSE <<>>, gates))

SpecLayout == InitLayout /\ [][Next]_vars

OrderedPairs(S) == {p \in S \X S : p[1] # p[2]}

\* the requests of the control study, over MaxQubits + 1 qubits: Hadamards on
\* a set of qubits at moment 0, one descriptor with a controls list at moment
\* 1, and possibly one more X at moment 1; and the request without gates
ControlLists(free) ==
    {<<c>> : c \in free} \cup OrderedPairs(free)

ControlledDescriptors(n) ==
    UNION {{GateOp(k, Some(q), None, None, cs, None, 1) :
              k \in {"X", "H"}, cs \in ControlLists((0..(n - 1)) \ {q})} :
           q \in 0..(n - 1)}
    \cup UNION {{GateOp("CNOT", None, Some(p[2]), Some(p[1]), <<c>>, None, 1) :
                   c \in (0..(n - 1)) \ {p[1], p[2]}} :
                p \in OrderedPairs(0..(n - 1))}

RECURSIVE HadamardLayer(_, _)
\* H at moment 0 on the qubits of S, by increasing index
HadamardLayer(S, n) ==
    IF n = 0 THEN <<>>
    ELSE HadamardLayer(S, n - 1)
           \o (IF (n - 1) \in S THEN <<Single("H", Some(n - 1), 0)>> ELSE <<>>)

InitControls ==
    LET n == MaxQubits + 1
    IN \/ Entered(CircuitData(n, <<>>, <<>>))
       \/ \E S \in SUBSET (0..(n - 1)) : \E g \in ControlledDescriptors(n) :
            \E rest \in {<<>>} \cup {<<Single("X", Some(q), 1)>> : q \in 0..(n - 1)} :
                Entered(CircuitData(n, <<>>, HadamardLayer(S, n) \o <<g>> \o rest))

SpecControls == InitControls /\ [][Next]_vars


\* ------------------------------------------------------------------ claims
Gates == data.gates
NumGates == Len(data.gates)

\* descriptor i yields an operation (neither left out nor raising)
Accepted(i) == BuildOp(Gates[i], Register(data), i).status = "op"

\* the simulated steps in which the operation of descriptor i was applied
AppliedAt(i) == {applied[k][2] : k \in {k \in 1..Len(applied) : applied[k][1] = i}}

\* how many times the operation of descriptor i was applied
TimesApplied(i) == Cardinality({k \in 1..Len(applied) : applied[k][1] = i})

\* the indices a descriptor refers to in qubit, target, control and controls
Referenced(g) ==
    {g.qubit[k] : k \in 1..Len(g.qubit)} \cup {g.target[k] : k \in 1..Len(g.target)}
      \cup {g.control[k] : k \in 1..Len(g.control)}
      \cup {g.controls[k] : k \in 1..Len(g.controls)}

\* C1: a returned steps list has max_moment + 2 entries, max_moment the
\* largest declared moment (0 without gates)
C1_StepCount ==
    pc = "done" => Len(result[1].steps) = MaxMomentOf(Gates) + 2

\* C2: a returned steps list is non-empty, starts with moment -1 holding
\* |0...0>, and the top-level state_vector and bloch_vectors are those of its
\* last entry
C2_FinalIsLastStep ==
    pc = "done" =>
        LET r == result[1]
            last == r.steps[Len(r.steps)]
        IN /\ Len(r.steps) >= 1
           /\ r.steps[1].moment = -1
           /\ r.steps[1].state_vector =
                [i \in 0..(Pow2(data.qubits) - 1) |->
                    [real |-> IF i = 0 THEN <<1, 0, 0>> ELSE <<0, 0, 0>>,
                     imag |-> <<0, 0, 0>>]]
           /\ r.state_vector = last.state_vector
           /\ r.bloch_vectors = last.bloch_vectors

\* a run that returned a final state other than the initial one
C2_Witness ==
    /\ pc = "done"
    /\ Len(result[1].steps) >= 3
    /\ result[1].state_vector # result[1].steps[1].state_vector

\* C3: the entries after the first are those of the declared moments
\* 0..max_moment in order, each carrying its declared moment k and recorded
\* when exactly the operations declared at moments 0..k have been applied
C3_StepsFollowDeclaredMoments ==
    pc = "done" =>
        LET h == result[1].steps
        IN /\ Len(h) = MaxMomentOf(Gates) + 2
           /\ \A j \in 2..Len(h) :
                /\ h[j].moment = j - 2
                /\ {i \in 1..NumGates : \E s \in AppliedAt(i) : s <= h[j].moment}
                     = {i \in 1..NumGates : Accepted(i) /\ Gates[i].moment <= h[j].moment}

\* C4: every descriptor the builder has passed is in its declared moment's
\* layer, unless the request failed
C4_NoDescriptorDropped ==
    \A i \in 1..NumGates :
        (i < gi /\ pc # "error") =>
            \E k \in 1..Len(moment_ops[Gates[i].moment]) :
                moment_ops[Gates[i].moment][k].src = i

\* C5: a request with a referenced index outside [0, qubits) never gets past
\* the builder: no circuit, no step, no result
C5_OutOfRangeRejected ==
    (\E i \in 1..NumGates : \E v \in Referenced(Gates[i]) : v < 0 \/ v >= data.qubits)
        => (pc \in {"start", "gates", "error"} /\ steps = <<>> /\ result = <<>>)

\* C6: a request whose qubit_names has another length than qubits never gets
\* past the builder
C6_NameMismatchRejected ==
    (data.qubit_names # <<>> /\ Len(data.qubit_names) # data.qubits)
        => (pc \in {"start", "gates", "error"} /\ steps = <<>> /\ result = <<>>)

\* the value of amplitude i of s, brought over the denominator 2^(s.e + t.e)
Scaled(s, i, t) == AMul(s.amp[i], <<Pow2(t.e), 0, 0, 0>>)

C9_NoReorderAcrossMoments ==
    pc = "done" =>
        \A i, j \in 1..NumGates :
            (Accepted(i) /\ Accepted(j) /\ Gates[i].moment < Gates[j].moment)
                => /\ AppliedAt(i) # {}
                   /\ AppliedAt(j) # {}
                   /\ \A a \in AppliedAt(i), b \in AppliedAt(j) : a < b

\* a returned run whose list holds the later moment's descriptor first
C9_Witness ==
    /\ pc = "done"
    /\ \E i, j \in 1..NumGates :
          i > j /\ Accepted(i) /\ Accepted(j) /\ Gates[i].moment < Gates[j].moment

\* C10: the operations of one moment of the circuit act on pairwise disjoint
\* qubits, and a returned run has applied each accepted descriptor's operation
\* exactly once
C10_DisjointMoments ==
    /\ \A m \in 1..Len(circuit) : \A a, b \in 1..Len(circuit[m]) :
          a # b => OpQubits(circuit[m][a]) \cap OpQubits(circuit[m][b]) = {}
    /\ pc = "done" => \A i \in 1..NumGates : Accepted(i) => TimesApplied(i) = 1

\* a returned run of a request declaring two operations on one qubit at one
\* moment
C10_Witness ==
    /\ pc = "done"
    /\ \E i, j \in 1..NumGates :
          /\ i # j /\ Accepted(i) /\ Accepted(j)
          /\ Gates[i].moment = Gates[j].moment
          /\ OpQubits(BuildOp(Gates[i], qubits, i).op)
               \cap OpQubits(BuildOp(Gates[j], qubits, j).op) # {}

=============================================================================
